---- MODULE Spec2Model ----
(***************************************************************************)
(* tutor-contrib-cloudfront: the CloudFront client (cloudfront/client.py)  *)
(* and the create-cloudfront-resources command (commands.py), as a state   *)
(* machine over the provider's resource catalog.                           *)
(*                                                                         *)
(* Names are sequences of one-character strings, so that __sanitize_name   *)
(* is computed character by character as str.lower and str.replace do.     *)
(***************************************************************************)
EXTENDS Integers, Sequences, FiniteSets, TLC

\* ---- bounds of the model ------------------------------------------------
\* Invocations of the command in one behaviour.
MaxRuns == 2
\* Entries of CLOUDFRONT_EXTRA_DOMAINS.
MaxExtras == 2
\* Length of the names the client harness passes to the policy methods.
MaxNameLen == 2

\* ---- values -------------------------------------------------------------
\* Python's None where a policy or distribution (a dict) is expected.
None == [none |-> TRUE]
\* Python's None where a string is expected (a null in the configuration).
NoneStr == "None"
\* No provider-assigned Id: a lookup that found nothing, a call that raised.
NoId == <<>>

\* The three policy kinds and the distribution, in the order commands.py
\* works through them for one domain.
PolicyKinds == {"orp", "rhp", "cp"}
Kinds == PolicyKinds \cup {"dist"}

\* f"{domain}-origin-request-policy", f"{domain}-response-headers-policy",
\* f"{domain}-cache-policy": the suffixes.
OrpSuffix == <<"-", "o", "r", "i", "g", "i", "n", "-", "r", "e", "q", "u", "e", "s", "t", "-", "p", "o", "l", "i", "c", "y">>
RhpSuffix == <<"-", "r", "e", "s", "p", "o", "n", "s", "e", "-", "h", "e", "a", "d", "e", "r", "s", "-", "p", "o", "l", "i", "c", "y">>
CpSuffix == <<"-", "c", "a", "c", "h", "e", "-", "p", "o", "l", "i", "c", "y">>

request_policy_name(domain) == domain \o OrpSuffix
response_policy_name(domain) == domain \o RhpSuffix
cache_policy_name(domain) == domain \o CpSuffix

PolicyName(k, domain) ==
  CASE k = "orp" -> request_policy_name(domain)
    [] k = "rhp" -> response_policy_name(domain)
    [] k = "cp" -> cache_policy_name(domain)

\* ---- __sanitize_name ----------------------------------------------------
\* str.lower() on one character, for the upper-case letters of the model's
\* alphabet; every other character of the alphabet is its own lower case.
LowerChar(c) ==
  CASE c = "A" -> "a"
    [] c = "X" -> "x"
    [] OTHER -> c

Lower(s) == [i \in 1..Len(s) |-> LowerChar(s[i])]

\* str.replace(old, new) for one-character old and new.
Replace(s, old, new) == [i \in 1..Len(s) |-> IF s[i] = old THEN new ELSE s[i]]

\* A plausible slip: the name is not lower-cased.
sanitize_name_no_lower(name) == Replace(Replace(name, ".", "-"), " ", "-")

\* name.lower().replace(".", "-").replace(" ", "-")
sanitize_name(name) == Replace(Replace(Lower(name), ".", "-"), " ", "-")

\* ---- the provider's catalog, as the list calls return it ----------------
\* for item in policy_items: if item's Name == sanitize(name): return it
\* return None
RECURSIVE FirstMatch(_, _, _)
FirstMatch(items, key, i) ==
  IF i > Len(items) THEN None
  ELSE IF items[i].Name = key THEN items[i]
  ELSE FirstMatch(items, key, i + 1)

\* A plausible slip: the listed names are compared with the name as given.
get_policy_raw(items, name) == FirstMatch(items, name, 1)

get_policy(items, name) == FirstMatch(items, sanitize_name(name), 1)

get_origin_request_policy(cat, name) == get_policy(cat["orp"], name)
get_response_headers_policy(cat, name) == get_policy(cat["rhp"], name)
get_cache_policy(cat, name) == get_policy(cat["cp"], name)

GetPolicyOf(k, cat, name) ==
  CASE k = "orp" -> get_origin_request_policy(cat, name)
    [] k = "rhp" -> get_response_headers_policy(cat, name)
    [] k = "cp" -> get_cache_policy(cat, name)

\* for item in distribution_items: if item["DomainName"] == domain: return it
RECURSIVE FirstDomainMatch(_, _, _)
FirstDomainMatch(items, domain, i) ==
  IF i > Len(items) THEN None
  ELSE IF items[i].DomainName = domain THEN items[i]
  ELSE FirstDomainMatch(items, domain, i + 1)

get_distribution(cat, domain) == FirstDomainMatch(cat["dist"], domain, 1)

\* ---- Python dicts -------------------------------------------------------
\* dict(): no key.
EmptyDict == [k \in {} |-> NoneStr]

\* d.get(key), with default where the key is missing.
DictGet(d, key, default) == IF key \in DOMAIN d THEN d[key] ELSE default

\* d[key] = val on a dict under construction.
Put(d, key, val) == [k \in DOMAIN d \cup {key} |-> IF k = key THEN val ELSE d[k]]

\* ---- the request documents of the create_* methods ----------------------
\* Comment stands for the f-string that embeds the unsanitized name; the
\* forwarding and CORS settings of the three policies are literals of the
\* source, the same in every request, and are left out of the documents.
CachePolicyConfig(name, min_ttl, default_ttl, max_ttl) ==
  [Name |-> sanitize_name(name), Comment |-> name,
   DefaultTTL |-> default_ttl, MaxTTL |-> max_ttl, MinTTL |-> min_ttl]

OriginRequestPolicyConfig(name) ==
  [Name |-> sanitize_name(name), Comment |-> name]

ResponseHeadersPolicyConfig(name) ==
  [Name |-> sanitize_name(name), Comment |-> name]

PolicyConfigOf(k, name, cache_config) ==
  CASE k = "orp" -> OriginRequestPolicyConfig(name)
    [] k = "rhp" -> ResponseHeadersPolicyConfig(name)
    [] k = "cp" -> CachePolicyConfig(name, cache_config.min_ttl,
                                     cache_config.default_ttl, cache_config.max_ttl)

\* A plausible slip: the certificate settings are taken from the alias
\* argument as passed, so a missing alias is not the default certificate.
ViewerCertificateSlip(alias) ==
  [CloudFrontDefaultCertificate |-> FALSE, SSLSupportMethod |-> "sni-only"]

\* "ViewerCertificate": {"CloudFrontDefaultCertificate": len(alias) == 0,
\*                       "SSLSupportMethod": "sni-only" if alias else "static-ip"}
ViewerCertificate(alias) ==
  [CloudFrontDefaultCertificate |-> (Cardinality(DOMAIN alias) = 0),
   SSLSupportMethod |-> IF DOMAIN alias # {} THEN "sni-only" ELSE "static-ip"]

\* The configuration document create_distribution builds. alias0 is the
\* alias argument (None, or a dict); ref is the uuid4 of CallerReference.
DistributionConfig(domain, cache_policy_id, origin_request_policy_id, response_headers_policy_id, alias0, ref) ==
  LET alias == IF alias0 = None THEN EmptyDict ELSE alias0
      config == [Enabled |-> TRUE,
                 CallerReference |-> ref,
                 Comment |-> domain,
                 ViewerCertificate |-> ViewerCertificate(alias),
                 DefaultCacheBehavior |->
                   [TargetOriginId |-> domain,
                    CachePolicyId |-> cache_policy_id,
                    OriginRequestPolicyId |-> origin_request_policy_id,
                    ResponseHeadersPolicyId |-> response_headers_policy_id],
                 Origins |-> [Quantity |-> 1,
                              Items |-> <<[Id |-> domain, DomainName |-> domain]>>]]
      alias_domain == DictGet(alias, "domain", NoneStr)
      arn == DictGet(alias, "certificate_arn", NoneStr)
      config1 == IF alias_domain # NoneStr
                 THEN Put(config, "Aliases", [Items |-> <<alias_domain>>])
                 ELSE config
  IN IF arn # NoneStr
     THEN [config1 EXCEPT !.ViewerCertificate = Put(@, "ACMCertificateArn", arn)]
     ELSE config1

\* ---- the provider --------------------------------------------------------
\* The Id the provider gives the next resource of kind k.
NewId(cat, k) == <<k, Len(cat[k]) + 1>>

\* The decimal digits of n.
Digit(d) == CASE d = 0 -> "0" [] d = 1 -> "1" [] d = 2 -> "2" [] d = 3 -> "3"
              [] d = 4 -> "4" [] d = 5 -> "5" [] d = 6 -> "6" [] d = 7 -> "7"
              [] d = 8 -> "8" [] d = 9 -> "9"

RECURSIVE Decimal(_)
Decimal(n) == IF n < 10 THEN <<Digit(n)>> ELSE Decimal(n \div 10) \o <<Digit(n % 10)>>

\* The host name the provider gives its n-th distribution (d<n>.n, for
\* d111111abcdef8.cloudfront.net): the provider's own, one per distribution.
\* The request carries no top-level DomainName; the origin's host name is
\* sent as Origins.Items[0].DomainName only.
ProviderHost(n) == <<"d">> \o Decimal(n) \o <<".", "n">>

\* The created policy as the provider returns and lists it.
CreatedPolicy(cat, k, cfg) == [Id |-> NewId(cat, k), Name |-> cfg.Name, Config |-> cfg]

\* The created distribution as the provider returns and lists it.
CreatedDistribution(cat, cfg) ==
  [Id |-> NewId(cat, "dist"),
   DomainName |-> ProviderHost(Len(cat["dist"]) + 1),
   Config |-> cfg]

\* The catalog after the provider has stored a created resource.
Stored(cat, k, item) == [cat EXCEPT ![k] = Append(@, item)]

\* ---- the configuration ---------------------------------------------------
\* Host names of the configuration. "A x" and "a.x" differ as dict keys and
\* sanitize to the same policy names; d1.n is a host name of the provider's.
LmsDomains == {<<"l", ".", "x">>, <<"a", ".", "x">>}
CmsDomains == {<<"l", ".", "x">>, <<"c", ".", "x">>}

\* Entries of CLOUDFRONT_EXTRA_DOMAINS: domain, alias, certificate_arn.
ExtraEntries ==
  {[domain |-> <<"a", ".", "x">>, alias |-> "mfe.x", certificate_arn |-> "arn:y"],
   [domain |-> <<"a", ".", "x">>, alias |-> NoneStr, certificate_arn |-> NoneStr],
   [domain |-> <<"A", " ", "x">>, alias |-> "mfe.z", certificate_arn |-> NoneStr],
   [domain |-> <<"d", "1", ".", "n">>, alias |-> NoneStr, certificate_arn |-> "arn:z"]}

\* CLOUDFRONT_EXTRA_DOMAINS: the lists of at most MaxExtras entries.
RECURSIVE ListsUpTo(_, _)
ListsUpTo(S, n) ==
  IF n = 0 THEN {<<>>}
  ELSE LET shorter == ListsUpTo(S, n - 1)
       IN shorter \cup {Append(l, e) : l \in {x \in shorter : Len(x) = n - 1}, e \in S}

\* CLOUDFRONT_CACHE_CONFIG, the defaults of plugin.py.
DefaultCacheConfig == [min_ttl |-> 0, default_ttl |-> 300, max_ttl |-> 3600]

Configs ==
  [lms : LmsDomains, cms : CmsDomains, extras : ListsUpTo(ExtraEntries, MaxExtras),
   cache_config : {DefaultCacheConfig}]

\* The configurations with no or one extra domain, for the behaviours in
\* which the command runs several times.
RerunConfigs ==
  [lms : LmsDomains, cms : CmsDomains,
   extras : {<<>>} \cup {<<e>> : e \in ExtraEntries},
   cache_config : {DefaultCacheConfig}]

\* ---- origins: the dict literal of commands.py ---------------------------
\* Where key is among the keys of the dict under construction (0: nowhere).
KeyIndex(items, key) ==
  IF \E i \in 1..Len(items) : items[i].domain = key
  THEN CHOOSE i \in 1..Len(items) : items[i].domain = key
  ELSE 0

\* A plausible slip: a repeated key keeps the value it had.
DictSetKeepFirst(items, key, val) ==
  IF KeyIndex(items, key) = 0 THEN Append(items, [domain |-> key, config |-> val])
  ELSE items

\* Storing key: val in a dict: a new key goes last, a key already there
\* keeps its place and takes the new value.
DictSet(items, key, val) ==
  IF KeyIndex(items, key) = 0 THEN Append(items, [domain |-> key, config |-> val])
  ELSE [items EXCEPT ![KeyIndex(items, key)].config = val]

\* {x["domain"]: {"alias": {"domain": x["alias"],
\*                          "certificate_arn": x["certificate_arn"]}} for x in extra_config}
RECURSIVE WithExtras(_, _, _)
WithExtras(items, extras, i) ==
  IF i > Len(extras) THEN items
  ELSE WithExtras(
         DictSet(items, extras[i].domain,
                 [alias |-> [domain |-> extras[i].alias,
                             certificate_arn |-> extras[i].certificate_arn]]),
         extras, i + 1)

\* origins, as the list of its items in iteration order.
Origins(cfg) ==
  WithExtras(DictSet(DictSet(<<>>, cfg.lms, EmptyDict), cfg.cms, EmptyDict),
             cfg.extras, 1)

\* ---- state ---------------------------------------------------------------
VARIABLES
  config,    \* loaded_config: the configuration every invocation reads
  catalog,   \* the provider's resources, per kind, in the order it lists them
  uuid,      \* uuid4() values drawn so far (CallerReference)
  pc,        \* per invocation: where it is in create_cloudfront_resources
  origins,   \* per invocation: the origins dict, as its list of items
  idx,       \* per invocation: the item of origins the for loop is at
  policy,    \* per invocation: request_policy, response_policy, cache_policy
  echo,      \* per invocation: the lines click.echo has printed
  log,       \* per invocation: the provider calls it issued, in order
  probe,     \* the client harness: the kind and the two names it uses
  call       \* the client harness: its last call of a client method

vars == <<config, catalog, uuid, pc, origins, idx, policy, echo, log, probe, call>>

Runs == 1..MaxRuns

At(a, k) == [at |-> a, kind |-> k]
Idle == At("idle", "-")
Done == At("done", "-")
Raised == At("raised", "-")
AtEcho == At("echo", "-")

EmptyCatalog == [k \in Kinds |-> <<>>]
NoPolicies == [k \in PolicyKinds |-> None]

\* A plausible slip: the cache policy is handled before the response
\* headers policy.
NextKindSwapped(k) ==
  CASE k = "orp" -> "cp"
    [] k = "cp" -> "rhp"
    [] k = "rhp" -> "dist"

\* The kind whose get-or-create follows that of kind k for one domain.
NextKind(k) ==
  CASE k = "orp" -> "rhp"
    [] k = "rhp" -> "cp"
    [] k = "cp" -> "dist"

\* The domain and origin_config of the for loop's current iteration.
Domain(r) == origins[r][idx[r]].domain
OriginConfig(r) == origins[r][idx[r]].config

\* A provider call, as logged: the method, the kind, the iteration, the
\* argument, the identity compared or sent, the Id returned (NoId: none),
\* whether the call returned, and the request document of a create.
Call(op, k, i, arg, key, id, ok, request) ==
  [op |-> op, kind |-> k, idx |-> i, arg |-> arg, key |-> key, result |-> id,
   ok |-> ok, request |-> request]

IdOf(item) == IF item = None THEN NoId ELSE item.Id

Logged(r, c) == [log EXCEPT ![r] = Append(@, c)]

\* A plausible slip: the loop's next iteration starts over at the first item.
AfterDomainRestart(r) ==
  IF idx[r] < Len(origins[r])
  THEN /\ idx' = [idx EXCEPT ![r] = 1]
       /\ pc' = [pc EXCEPT ![r] = At("get", "orp")]
  ELSE /\ idx' = idx
       /\ pc' = [pc EXCEPT ![r] = AtEcho]

\* The end of one iteration of the for loop: the next item, or the line
\* after the loop.
AfterDomain(r) ==
  IF idx[r] < Len(origins[r])
  THEN /\ idx' = [idx EXCEPT ![r] = @ + 1]
       /\ pc' = [pc EXCEPT ![r] = At("get", "orp")]
  ELSE /\ idx' = idx
       /\ pc' = [pc EXCEPT ![r] = AtEcho]

\* ---- create_cloudfront_resources ----------------------------------------
\* Lines 27-45: the configuration is loaded and origins is built.
Begin(r) ==
  /\ pc[r] = Idle
  /\ origins' = [origins EXCEPT ![r] = Origins(config)]
  /\ idx' = [idx EXCEPT ![r] = 1]
  /\ pc' = [pc EXCEPT ![r] = At("get", "orp")]
  /\ UNCHANGED <<config, catalog, uuid, policy, echo, log, probe, call>>

\* An invocation that starts when the one before it has ended.
StartRun(r) ==
  /\ IF r = 1 THEN TRUE ELSE pc[r - 1] \in {Done, Raised}
  /\ Begin(r)

\* An invocation that starts while others may be running.
StartConcurrentRun(r) == Begin(r)

\* if (p := client.get_<kind>(name)) is None: the lookup.
GetPolicy(r, k) ==
  /\ pc[r] = At("get", k)
  /\ LET name == PolicyName(k, Domain(r))
         found == GetPolicyOf(k, catalog, name)
     IN /\ policy' = [policy EXCEPT ![r][k] = found]
        /\ log' = Logged(r, Call("get", k, idx[r], name, sanitize_name(name),
                                 IdOf(found), TRUE, None))
        /\ pc' = [pc EXCEPT ![r] =
                    IF found = None THEN At("create", k) ELSE At("get", NextKind(k))]
  /\ UNCHANGED <<config, catalog, uuid, origins, idx, echo, probe, call>>

\* A plausible slip, or a guard against concurrent runs: the create looks
\* the name up again and reuses a policy that has appeared since the lookup.
CreatePolicyChecked(r, k) ==
  /\ pc[r] = At("create", k)
  /\ LET name == PolicyName(k, Domain(r))
         found == GetPolicyOf(k, catalog, name)
         request == PolicyConfigOf(k, name, config.cache_config)
         created == CreatedPolicy(catalog, k, request)
     IN IF found # None
        THEN /\ policy' = [policy EXCEPT ![r][k] = found]
             /\ UNCHANGED <<catalog, log>>
        ELSE /\ catalog' = Stored(catalog, k, created)
             /\ policy' = [policy EXCEPT ![r][k] = created]
             /\ log' = Logged(r, Call("create", k, idx[r], name, request.Name,
                                      created.Id, TRUE, request))
  /\ pc' = [pc EXCEPT ![r] = At("get", NextKind(k))]
  /\ UNCHANGED <<config, uuid, origins, idx, echo, probe, call>>

\* p = client.create_<kind>(name): the create the lookup's None leads to.
CreatePolicy(r, k) ==
  /\ pc[r] = At("create", k)
  /\ LET name == PolicyName(k, Domain(r))
         request == PolicyConfigOf(k, name, config.cache_config)
         created == CreatedPolicy(catalog, k, request)
     IN /\ catalog' = Stored(catalog, k, created)
        /\ policy' = [policy EXCEPT ![r][k] = created]
        /\ log' = Logged(r, Call("create", k, idx[r], name, request.Name,
                                 created.Id, TRUE, request))
        /\ pc' = [pc EXCEPT ![r] = At("get", NextKind(k))]
  /\ UNCHANGED <<config, uuid, origins, idx, echo, probe, call>>

\* if client.get_distribution(domain) is None: the lookup.
GetDistribution(r) ==
  /\ pc[r] = At("get", "dist")
  /\ LET found == get_distribution(catalog, Domain(r))
     IN /\ log' = Logged(r, Call("get", "dist", idx[r], Domain(r), Domain(r),
                                 IdOf(found), TRUE, None))
        /\ IF found = None
           THEN /\ pc' = [pc EXCEPT ![r] = At("create", "dist")]
                /\ idx' = idx
           ELSE AfterDomain(r)
  /\ UNCHANGED <<config, catalog, uuid, origins, policy, echo, probe, call>>

\* client.create_distribution(domain=..., cache_policy_id=cache_policy["Id"], ...)
CreateDistribution(r) ==
  /\ pc[r] = At("create", "dist")
  /\ LET request == DistributionConfig(Domain(r), policy[r]["cp"].Id,
                                       policy[r]["orp"].Id, policy[r]["rhp"].Id,
                                       DictGet(OriginConfig(r), "alias", None),
                                       uuid + 1)
         created == CreatedDistribution(catalog, request)
     IN /\ catalog' = Stored(catalog, "dist", created)
        /\ log' = Logged(r, Call("create", "dist", idx[r], Domain(r), Domain(r),
                                 created.Id, TRUE, request))
  /\ uuid' = uuid + 1
  /\ AfterDomain(r)
  /\ UNCHANGED <<config, origins, policy, echo, probe, call>>

\* A plausible slip: the error is caught and the call is tried again.
ProviderErrorRetried(r) ==
  /\ pc[r].at \in {"get", "create"}
  /\ LET k == pc[r].kind
         arg == IF k = "dist" THEN Domain(r) ELSE PolicyName(k, Domain(r))
         key == IF k = "dist" THEN arg ELSE sanitize_name(arg)
     IN log' = Logged(r, Call(pc[r].at, k, idx[r], arg, key, NoId, FALSE, None))
  /\ UNCHANGED <<config, catalog, uuid, pc, origins, idx, policy, echo, probe, call>>

\* A provider call raises: nothing catches it, the command ends there.
ProviderError(r) ==
  /\ pc[r].at \in {"get", "create"}
  /\ LET k == pc[r].kind
         arg == IF k = "dist" THEN Domain(r) ELSE PolicyName(k, Domain(r))
         key == IF k = "dist" THEN arg ELSE sanitize_name(arg)
     IN log' = Logged(r, Call(pc[r].at, k, idx[r], arg, key, NoId, FALSE, None))
  /\ pc' = [pc EXCEPT ![r] = Raised]
  /\ UNCHANGED <<config, catalog, uuid, origins, idx, policy, echo, probe, call>>

\* click.echo(f"CloudFront is set up for {domain}"), after the loop.
Echo(r) ==
  /\ pc[r] = AtEcho
  /\ echo' = [echo EXCEPT ![r] = Append(@, Domain(r))]
  /\ pc' = [pc EXCEPT ![r] = Done]
  /\ UNCHANGED <<config, catalog, uuid, origins, idx, policy, log, probe, call>>

Step(r) ==
  \/ \E k \in PolicyKinds : GetPolicy(r, k)
  \/ \E k \in PolicyKinds : CreatePolicy(r, k)
  \/ GetDistribution(r)
  \/ CreateDistribution(r)
  \/ ProviderError(r)
  \/ Echo(r)

\* ---- invocations one after another ---------------------------------------
NoProbe == [kind |-> "-", n1 |-> <<>>, n2 |-> <<>>]
NoCall == [op |-> "none"]

\* No invocation has started.
NotStarted ==
  /\ uuid = 0
  /\ pc = [r \in Runs |-> Idle]
  /\ origins = [r \in Runs |-> <<>>]
  /\ idx = [r \in Runs |-> 0]
  /\ policy = [r \in Runs |-> NoPolicies]
  /\ echo = [r \in Runs |-> <<>>]
  /\ log = [r \in Runs |-> <<>>]
  /\ probe = NoProbe
  /\ call = NoCall

RunState ==
  /\ catalog = EmptyCatalog
  /\ NotStarted

Init ==
  /\ config \in RerunConfigs
  /\ RunState

Next == \E r \in Runs : StartRun(r) \/ Step(r)

Spec == Init /\ [][Next]_vars

\* ---- invocations over a catalog that holds resources already --------------
\* Policies the account holds from before: a cache policy under the name of
\* the l.x cache policy, created when CLOUDFRONT_CACHE_CONFIG had other
\* TTLs, and an origin request and a response headers policy under a name
\* of their own.
OldCachePolicy ==
  CreatedPolicy(EmptyCatalog, "cp",
                CachePolicyConfig(cache_policy_name(<<"l", ".", "x">>), 1, 2, 3))
OldRequestPolicy ==
  CreatedPolicy(EmptyCatalog, "orp", OriginRequestPolicyConfig(<<"o", "l", "d">>))
OldResponsePolicy ==
  CreatedPolicy(EmptyCatalog, "rhp", ResponseHeadersPolicyConfig(<<"o", "l", "d">>))

\* A distribution the account holds from before, created for the origin l.x
\* with those policies and an alias.
OldDistribution ==
  CreatedDistribution(EmptyCatalog,
    DistributionConfig(<<"l", ".", "x">>, OldCachePolicy.Id, OldRequestPolicy.Id,
                       OldResponsePolicy.Id,
                       [domain |-> "old.x", certificate_arn |-> "arn:o"], 0))

PreCatalogs ==
  {[EmptyCatalog EXCEPT !["cp"] = <<OldCachePolicy>>],
   [orp |-> <<OldRequestPolicy>>, rhp |-> <<OldResponsePolicy>>,
    cp |-> <<OldCachePolicy>>, dist |-> <<OldDistribution>>]}

PreInit ==
  /\ config \in RerunConfigs
  /\ catalog \in PreCatalogs
  /\ NotStarted

PreSpec == PreInit /\ [][Next]_vars

\* ---- one invocation, over every configuration ----------------------------
RunInit ==
  /\ config \in Configs
  /\ RunState

RunNext == StartRun(1) \/ Step(1)

RunSpec == RunInit /\ [][RunNext]_vars

\* One invocation under fairness: the interpreter runs the started command's
\* next statement, and each provider call returns or raises. The
\* configurations are those of no or one extra domain.
FairRunSpec == Init /\ [][RunNext]_vars /\ WF_vars(RunNext)


\* ---- two invocations at once ----------------------------------------------
\* Two invocations of the command, started in any order and interleaved at
\* the provider calls; nothing in the command or the client orders them.
ConcRuns == {1, 2}

\* The configurations whose LMS and CMS share one host and have no extra
\* domain: origins has one item.
ConcInit ==
  /\ config \in {c \in RerunConfigs : c.lms = c.cms /\ c.extras = <<>>}
  /\ RunState

ConcNext == \E r \in ConcRuns : StartConcurrentRun(r) \/ Step(r)

ConcSpec == ConcInit /\ [][ConcNext]_vars

\* ---- the client's methods, called directly --------------------------------
\* The characters of the names passed to the client: an upper-case letter,
\* a lower-case letter, and the two characters __sanitize_name replaces.
Alphabet == {"A", "b", ".", " "}

Names == ListsUpTo(Alphabet, MaxNameLen)

\* The alias arguments passed to create_distribution: None, dicts with and
\* without each key, and the dicts commands.py builds from null entries.
AliasArgs ==
  {None, EmptyDict,
   [domain |-> "mfe.x"], [certificate_arn |-> "arn:y"],
   [domain |-> "mfe.x", certificate_arn |-> "arn:y"],
   [domain |-> "mfe.x", certificate_arn |-> NoneStr],
   [domain |-> NoneStr, certificate_arn |-> "arn:y"],
   [domain |-> NoneStr, certificate_arn |-> NoneStr]}

\* A call of a client method by the harness: the method, the kind, the
\* argument, the request document sent (None for a lookup) and the value
\* returned.
ClientCall(op, k, arg, request, result) ==
  [op |-> op, kind |-> k, arg |-> arg, request |-> request, result |-> result]

\* client.create_<kind>(n1), once.
ClientCreatePolicy ==
  /\ probe.kind \in PolicyKinds
  /\ catalog[probe.kind] = <<>>
  /\ call.op \in {"none", "get"}
  /\ LET request == PolicyConfigOf(probe.kind, probe.n1, DefaultCacheConfig)
         created == CreatedPolicy(catalog, probe.kind, request)
     IN /\ catalog' = Stored(catalog, probe.kind, created)
        /\ call' = ClientCall("create", probe.kind, probe.n1, request, created)
  /\ UNCHANGED <<config, uuid, pc, origins, idx, policy, echo, log, probe>>

\* client.get_<kind>(n2).
ClientGetPolicy ==
  /\ probe.kind \in PolicyKinds
  /\ call.op \in {"none", "create"}
  /\ call' = ClientCall("get", probe.kind, probe.n2, None,
                        GetPolicyOf(probe.kind, catalog, probe.n2))
  /\ UNCHANGED <<config, catalog, uuid, pc, origins, idx, policy, echo, log, probe>>

\* client.create_distribution(n1, ids..., alias), as the harness's only call.
ClientCreateDistribution(alias) ==
  /\ call = NoCall
  /\ LET request == DistributionConfig(probe.n1, <<"cp", 1>>, <<"orp", 1>>,
                                       <<"rhp", 1>>, alias, uuid + 1)
         created == CreatedDistribution(catalog, request)
     IN /\ catalog' = Stored(catalog, "dist", created)
        /\ call' = [ClientCall("create_distribution", "dist", probe.n1, request,
                               created) EXCEPT !.arg = [domain |-> probe.n1, alias |-> alias]]
  /\ uuid' = uuid + 1
  /\ UNCHANGED <<config, pc, origins, idx, policy, echo, log, probe>>

ClientInit ==
  /\ config \in {c \in RerunConfigs : c.lms = c.cms /\ c.extras = <<>>}
  /\ catalog = EmptyCatalog
  /\ uuid = 0
  /\ pc = [r \in Runs |-> Idle]
  /\ origins = [r \in Runs |-> <<>>]
  /\ idx = [r \in Runs |-> 0]
  /\ policy = [r \in Runs |-> NoPolicies]
  /\ echo = [r \in Runs |-> <<>>]
  /\ log = [r \in Runs |-> <<>>]
  /\ probe \in [kind : PolicyKinds, n1 : Names, n2 : Names]
  /\ call = NoCall

ClientNext ==
  \/ ClientCreatePolicy
  \/ ClientGetPolicy
  \/ \E alias \in AliasArgs : ClientCreateDistribution(alias)

ClientSpec == ClientInit /\ [][ClientNext]_vars

\* ==== properties ============================================================
\* The positions in invocation r's log of its calls of method op for kind k
\* in iteration i of the loop.
Entries(r, op, k, i) ==
  {j \in 1..Len(log[r]) : log[r][j].op = op /\ log[r][j].kind = k /\ log[r][j].idx = i}

\* The one member of a one-element set of log positions.
TheEntry(r, S) == log[r][CHOOSE j \in S : TRUE]

\* The host name of the origin a catalogued distribution was created for.
OriginOf(dist) == dist.Config.Origins.Items[1].DomainName

\* C1: when the command has run to completion and runs again with the same
\* configuration, nothing else having written to the catalog in between, the
\* second run issues no create call of any kind: it only looks up.
C1_SecondRunOnlyLooksUp ==
  \A r \in Runs :
    (r > 1 /\ pc[r - 1] = Done) =>
      \A j \in 1..Len(log[r]) : log[r][j].op # "create"

\* C2: for every domain and every kind, get-or-create done twice in
\* succession (by one completed run and the completed run after it), from a
\* catalog in which the first lookup found nothing, is two lookups and one
\* create, and the second lookup returns what the first create produced.
C2_GetOrCreateTwice ==
  \A r \in Runs :
    (r > 1 /\ pc[r - 1] = Done /\ pc[r] = Done) =>
      \A i \in 1..Len(origins[r]) : \A k \in Kinds :
        (\E j \in Entries(r - 1, "get", k, i) : log[r - 1][j].result = NoId) =>
          /\ Cardinality(Entries(r - 1, "get", k, i)) = 1
          /\ Cardinality(Entries(r, "get", k, i)) = 1
          /\ Cardinality(Entries(r - 1, "create", k, i)) = 1
          /\ Cardinality(Entries(r, "create", k, i)) = 0
          /\ TheEntry(r, Entries(r, "get", k, i)).result
               = TheEntry(r - 1, Entries(r - 1, "create", k, i)).result

\* C3: after any sequence of invocations that do not overlap, aborted ones
\* included, the catalog holds no two policies of one kind with the same
\* name and no two distributions created for the same origin domain.
C3_NoTwoWithOneIdentity ==
  /\ \A k \in PolicyKinds : \A i, j \in 1..Len(catalog[k]) :
       i # j => catalog[k][i].Name # catalog[k][j].Name
  /\ \A i, j \in 1..Len(catalog["dist"]) :
       i # j => OriginOf(catalog["dist"][i]) # OriginOf(catalog["dist"][j])

\* The domains the configuration names, in the order the dict literal takes
\* them, and the origin_config each comes with.
ConfigKeys(cfg) ==
  <<cfg.lms, cfg.cms>> \o [i \in 1..Len(cfg.extras) |-> cfg.extras[i].domain]

ConfigVals(cfg) ==
  <<EmptyDict, EmptyDict>> \o
  [i \in 1..Len(cfg.extras) |->
     [alias |-> [domain |-> cfg.extras[i].alias,
                 certificate_arn |-> cfg.extras[i].certificate_arn]]]

FirstAt(keys, d) == CHOOSE i \in 1..Len(keys) : keys[i] = d /\ \A j \in 1..(i - 1) : keys[j] # d
LastAt(keys, d) == CHOOSE i \in 1..Len(keys) : keys[i] = d /\ \A j \in (i + 1)..Len(keys) : keys[j] # d

\* The argument a lookup or create of kind k is given for domain d.
ArgFor(k, d) == IF k = "dist" THEN d ELSE PolicyName(k, d)

\* C4: the domains one run processes are LMS, CMS and the extra domains in
\* configuration order, each distinct domain once, at the place of its first
\* occurrence and with the alias and certificate (or none) of its last; a
\* completed run has looked up each kind once for each of them, in that
\* order, and a distribution it creates carries the alias of its domain. So
\* l.x, c.x and the extra a.x give exactly [l.x, c.x, a.x], a.x alone with
\* an alias.
C4_ProcessedDomains ==
  pc[1] # Idle =>
    LET o == origins[1]
        keys == ConfigKeys(config)
        vals == ConfigVals(config)
    IN /\ \A a, b \in 1..Len(o) : a # b => o[a].domain # o[b].domain
       /\ {o[a].domain : a \in 1..Len(o)} = {keys[i] : i \in 1..Len(keys)}
       /\ \A a, b \in 1..Len(o) :
            a < b => FirstAt(keys, o[a].domain) < FirstAt(keys, o[b].domain)
       /\ \A a \in 1..Len(o) : o[a].config = vals[LastAt(keys, o[a].domain)]
       /\ \A j \in 1..Len(log[1]) :
            /\ log[1][j].idx \in 1..Len(o)
            /\ log[1][j].arg = ArgFor(log[1][j].kind, o[log[1][j].idx].domain)
            /\ \A h \in 1..(j - 1) : log[1][h].idx <= log[1][j].idx
       /\ pc[1] = Done =>
            \A a \in 1..Len(o) : \A k \in Kinds : Cardinality(Entries(1, "get", k, a)) = 1
       /\ \A j \in 1..Len(log[1]) :
            (log[1][j].op = "create" /\ log[1][j].kind = "dist" /\ log[1][j].ok) =>
              LET c == o[log[1][j].idx].config
                  named == "alias" \in DOMAIN c /\ c.alias.domain # NoneStr
              IN /\ "Aliases" \in DOMAIN log[1][j].request <=> named
                 /\ named => log[1][j].request.Aliases.Items = <<c.alias.domain>>
       /\ ( /\ config.lms = <<"l", ".", "x">>
            /\ config.cms = <<"c", ".", "x">>
            /\ config.extras = <<[domain |-> <<"a", ".", "x">>, alias |-> "mfe.x",
                                  certificate_arn |-> "arn:y"]>> )
          => o = <<[domain |-> <<"l", ".", "x">>, config |-> EmptyDict],
                   [domain |-> <<"c", ".", "x">>, config |-> EmptyDict],
                   [domain |-> <<"a", ".", "x">>,
                    config |-> [alias |-> [domain |-> "mfe.x",
                                           certificate_arn |-> "arn:y"]]]>>

\* A completed run over a configuration that names a.x three times: as the
\* LMS domain, as an extra domain with an alias, and again as an extra
\* domain with another alias.
C4_Witness ==
  /\ pc[1] = Done
  /\ Len(config.extras) = 2
  /\ config.lms = config.extras[1].domain
  /\ config.extras[1].domain = config.extras[2].domain
  /\ config.extras[1].alias # config.extras[2].alias
  /\ Len(origins[1]) = 2
  /\ \E j \in 1..Len(log[1]) : log[1][j].op = "create" /\ log[1][j].kind = "dist"

\* The place of a kind in the order of the claim: origin request policy,
\* response headers policy, cache policy, distribution.
Rank(k) ==
  CASE k = "orp" -> 1
    [] k = "rhp" -> 2
    [] k = "cp" -> 3
    [] k = "dist" -> 4

\* The policy Id of kind k in a create_distribution request.
PolicyIdIn(request, k) ==
  CASE k = "orp" -> request.DefaultCacheBehavior.OriginRequestPolicyId
    [] k = "rhp" -> request.DefaultCacheBehavior.ResponseHeadersPolicyId
    [] k = "cp" -> request.DefaultCacheBehavior.CachePolicyId

\* The calls before position j of invocation r's log that found or created
\* the policy of kind k in iteration i.
Settled(r, j, k, i) ==
  {h \in 1..(j - 1) : /\ log[r][h].kind = k
                       /\ log[r][h].idx = i
                       /\ log[r][h].ok
                       /\ log[r][h].result # NoId}

\* C5: the calls of one run are, domain after domain, the lookup of the
\* origin request policy, of the response headers policy, of the cache
\* policy and of the distribution, each followed by its create exactly when
\* it found nothing; a domain's calls all come before the next domain's; and
\* a create_distribution call comes after the three policies of its domain
\* were found or created and passes the Ids of exactly those.
C5_CallOrder ==
  LET L == log[1]
  IN /\ Len(L) >= 1 => (L[1].op = "get" /\ L[1].kind = "orp" /\ L[1].idx = 1)
     /\ \A j \in 1..(Len(L) - 1) :
          LET e == L[j]
              f == L[j + 1]
          IN /\ e.ok
             /\ IF e.op = "get" /\ e.result = NoId
                THEN f.op = "create" /\ f.kind = e.kind /\ f.idx = e.idx /\ f.arg = e.arg
                ELSE /\ f.op = "get"
                     /\ IF e.kind = "dist"
                        THEN f.kind = "orp" /\ f.idx = e.idx + 1
                        ELSE Rank(f.kind) = Rank(e.kind) + 1 /\ f.idx = e.idx
     /\ \A j \in 1..Len(L) :
          (L[j].op = "create" /\ L[j].kind = "dist" /\ L[j].ok) =>
            \A k \in PolicyKinds :
              /\ Cardinality(Settled(1, j, k, L[j].idx)) = 1
              /\ \A h \in Settled(1, j, k, L[j].idx) :
                   /\ L[h].result = PolicyIdIn(L[j].request, k)
                   /\ L[h].result[1] = k

\* A completed run of several domains that created the distribution of its
\* second domain with one policy found and another created.
C5_Witness ==
  /\ pc[1] = Done
  /\ Len(origins[1]) >= 2
  /\ \E j \in 1..Len(log[1]) :
       /\ log[1][j].op = "create" /\ log[1][j].kind = "dist" /\ log[1][j].idx >= 2
  /\ \E j \in 1..Len(log[1]) :
       log[1][j].op = "get" /\ log[1][j].kind = "cp" /\ log[1][j].result # NoId

\* Whether call e comes no later than call f in the order of one run.
NoLater(e, f) == e.idx < f.idx \/ (e.idx = f.idx /\ Rank(e.kind) <= Rank(f.kind))

\* C6: a provider call that fails ends the run there: it is the run's last
\* call (none for the remaining kinds of the domain, none for the domains
\* not yet processed, no second try), the completion message is not
\* printed, and what the run created before stays in the catalog.
C6_AbortOnError ==
  \A r \in Runs :
    /\ \A j \in 1..Len(log[r]) :
         ~log[r][j].ok =>
           /\ j = Len(log[r])
           /\ pc[r] = Raised
           /\ \A h \in 1..(j - 1) : log[r][h].ok /\ NoLater(log[r][h], log[r][j])
    /\ pc[r] = Raised =>
         /\ Len(log[r]) >= 1
         /\ ~log[r][Len(log[r])].ok
         /\ echo[r] = <<>>
    /\ \A j \in 1..Len(log[r]) :
         (log[r][j].op = "create" /\ log[r][j].ok) =>
           \E i \in 1..Len(catalog[log[r][j].kind]) :
             /\ catalog[log[r][j].kind][i].Id = log[r][j].result
             /\ catalog[log[r][j].kind][i].Config = log[r][j].request

\* A run of several domains that was aborted at its second domain, after it
\* had created the distribution of its first, and the run after it ended.
C6_Witness ==
  /\ pc[1] = Raised
  /\ pc[2] \in {Done, Raised}
  /\ Len(origins[1]) >= 3
  /\ log[1][Len(log[1])].idx = 2
  /\ \E j \in 1..Len(log[1]) :
       log[1][j].op = "create" /\ log[1][j].kind = "dist" /\ log[1][j].ok

\* alias.get(key) is not None, for the alias argument as passed.
Carries(alias, key) == alias # None /\ key \in DOMAIN alias /\ alias[key] # NoneStr

\* C7: in the document create_distribution builds, no alias argument gives
\* no Aliases entry, CloudFrontDefaultCertificate true and SSLSupportMethod
\* "static-ip"; an alias with domain d and certificate_arn a gives
\* Aliases.Items = [d], ACMCertificateArn = a and "sni-only"; Aliases is
\* there only if alias.domain is, ACMCertificateArn only if
\* alias.certificate_arn is.
C7_AliasDecidesCertificate ==
  call.op = "create_distribution" =>
    LET alias == call.arg.alias
        cfg == call.request
        cert == cfg.ViewerCertificate
    IN /\ alias = None =>
            /\ "Aliases" \notin DOMAIN cfg
            /\ cert.CloudFrontDefaultCertificate = TRUE
            /\ cert.SSLSupportMethod = "static-ip"
       /\ (Carries(alias, "domain") /\ Carries(alias, "certificate_arn")) =>
            /\ "Aliases" \in DOMAIN cfg
            /\ cfg.Aliases.Items = <<alias.domain>>
            /\ "ACMCertificateArn" \in DOMAIN cert
            /\ cert.ACMCertificateArn = alias.certificate_arn
            /\ cert.CloudFrontDefaultCertificate = FALSE
            /\ cert.SSLSupportMethod = "sni-only"
       /\ "Aliases" \in DOMAIN cfg => Carries(alias, "domain")
       /\ "ACMCertificateArn" \in DOMAIN cert => Carries(alias, "certificate_arn")
       /\ call.result.Config = cfg
       /\ catalog["dist"] = <<call.result>>

\* create_distribution was called with an alias that has a domain and a
\* certificate ARN.
C7_Witness ==
  /\ call.op = "create_distribution"
  /\ Carries(call.arg.alias, "domain")
  /\ Carries(call.arg.alias, "certificate_arn")
  /\ call.request.Aliases.Items = <<"mfe.x">>

\* The name the claim describes for x: lower case, "." and " " made "-".
Sanitized(x) ==
  [i \in 1..Len(x) |-> IF x[i] \in {".", " "} THEN "-" ELSE LowerChar(x[i])]

\* The items of a listing whose name is n.
Named(items, n) == {i \in 1..Len(items) : items[i].Name = n}

\* C8: __sanitize_name gives the lower-case name with every "." and " "
\* made "-", and sanitizing twice is sanitizing once; a create_<kind> call
\* sends the sanitized name as the policy's name, and a get_<kind> lookup
\* returns the first listed policy whose name is the sanitized argument, or
\* None where there is none.
C8_SanitizedNames ==
  /\ \A x \in {probe.n1, probe.n2} :
       /\ sanitize_name(x) = Sanitized(x)
       /\ sanitize_name(sanitize_name(x)) = sanitize_name(x)
  /\ call.op = "create" =>
       /\ call.request.Name = Sanitized(call.arg)
       /\ call.result.Name = Sanitized(call.arg)
  /\ call.op = "get" =>
       LET items == catalog[call.kind]
           hits == Named(items, Sanitized(call.arg))
       IN IF hits = {}
          THEN call.result = None
          ELSE call.result = items[CHOOSE i \in hits : \A h \in hits : i <= h]

\* A policy created under one name was found under another name that
\* sanitizes to the same, neither being the sanitized name itself.
C8_Witness ==
  /\ call.op = "get"
  /\ call.result # None
  /\ probe.n1 # probe.n2
  /\ probe.n1 # call.result.Name
  /\ probe.n2 # call.result.Name
  /\ \E i \in 1..Len(probe.n1) : probe.n1[i] = "A"

\* C9: nothing orders two invocations that run at once. A run whose lookup
\* found nothing issues the create for that identity as its next call,
\* whatever the other run has created since, and is at a create only after
\* such a lookup of its own; so both runs can look a resource up before
\* either creates it and both then issue a create for the same kind and
\* name.
C9_CreateAfterOwnLookupOnly ==
  \A r \in ConcRuns :
    /\ \A j \in 1..(Len(log[r]) - 1) :
         (log[r][j].op = "get" /\ log[r][j].ok /\ log[r][j].result = NoId) =>
           /\ log[r][j + 1].op = "create"
           /\ log[r][j + 1].kind = log[r][j].kind
           /\ log[r][j + 1].key = log[r][j].key
    /\ pc[r].at = "create" =>
         /\ Len(log[r]) >= 1
         /\ log[r][Len(log[r])].op = "get"
         /\ log[r][Len(log[r])].kind = pc[r].kind
         /\ log[r][Len(log[r])].result = NoId

\* Both runs looked up a policy of one kind and name, found nothing, and
\* both created it: the catalog lists two policies of that kind and name.
C9_Witness ==
  \E k \in PolicyKinds :
    /\ \E j \in Entries(1, "get", k, 1) : log[1][j].ok /\ log[1][j].result = NoId
    /\ \E j \in Entries(2, "get", k, 1) : log[2][j].ok /\ log[2][j].result = NoId
    /\ \E j1 \in Entries(1, "create", k, 1) : \E j2 \in Entries(2, "create", k, 1) :
         /\ log[1][j1].ok /\ log[2][j2].ok
         /\ log[1][j1].key = log[2][j2].key
         /\ log[1][j1].result # log[2][j2].result
    /\ \E a, b \in 1..Len(catalog[k]) : a # b /\ catalog[k][a].Name = catalog[k][b].Name

\* What one run has done stays within one lookup and one create for each
\* kind and domain, in an order that never goes back; the completion message
\* is printed once, by a run that processed every domain without a failing
\* call, and a run that raised did so on its first failing call.
C10_Bounded ==
  LET L == log[1]
  IN /\ \A i \in 1..Len(origins[1]) : \A k \in Kinds :
          /\ Cardinality(Entries(1, "get", k, i)) <= 1
          /\ Cardinality(Entries(1, "create", k, i)) <= 1
     /\ \A j \in 1..Len(L) :
          /\ L[j].idx \in 1..Len(origins[1])
          /\ \A h \in 1..(j - 1) :
               /\ NoLater(L[h], L[j])
               /\ (L[h].idx = L[j].idx /\ L[h].kind = L[j].kind) =>
                    (h = j - 1 /\ L[h].op = "get" /\ L[j].op = "create")
     /\ pc[1] = Done =>
          /\ echo[1] = <<origins[1][Len(origins[1])].domain>>
          /\ \A j \in 1..Len(L) : L[j].ok
          /\ \A i \in 1..Len(origins[1]) : \A k \in Kinds :
               Cardinality(Entries(1, "get", k, i)) = 1
     /\ pc[1] # Done => echo[1] = <<>>
     /\ pc[1] = Raised =>
          /\ ~L[Len(L)].ok
          /\ \A j \in 1..(Len(L) - 1) : L[j].ok

\* C10: a started invocation ends, each provider call returning or raising:
\* it processes every domain and prints the completion message once, or it
\* raises on the first failing provider call; for each domain it issues at
\* most one lookup and one create of each kind and never goes back to an
\* earlier domain or kind.
C10_RunEnds ==
  /\ []C10_Bounded
  /\ (pc[1] # Idle) ~> (pc[1] \in {Done, Raised})

\* A run of three domains has ended with the completion message printed.
C10_Witness ==
  /\ pc[1] = Done
  /\ Len(origins[1]) = 3
  /\ Len(echo[1]) = 1
  /\ Len(log[1]) > 12

\* Every resource the catalog lists stays listed, at its place and as it
\* was, through a step.
C11_Grows ==
  \A k \in Kinds :
    /\ Len(catalog'[k]) >= Len(catalog[k])
    /\ \A i \in 1..Len(catalog[k]) : catalog'[k][i] = catalog[k][i]

\* A policy a run found by name is not created by it, whatever its TTLs;
\* and no create_distribution call is issued, or about to be, for a domain
\* that a listed distribution was already created for.
C11_Reused ==
  \A r \in Runs :
    /\ \A j \in 1..Len(log[r]) :
         (log[r][j].op = "get" /\ log[r][j].kind \in PolicyKinds
            /\ log[r][j].result # NoId) =>
           /\ Entries(r, "create", log[r][j].kind, log[r][j].idx) = {}
           /\ \E i \in 1..Len(catalog[log[r][j].kind]) :
                catalog[log[r][j].kind][i].Id = log[r][j].result
    /\ pc[r] = At("create", "dist") =>
         \A i \in 1..Len(catalog["dist"]) : OriginOf(catalog["dist"][i]) # Domain(r)
    /\ \A j \in 1..Len(log[r]) :
         (log[r][j].op = "create" /\ log[r][j].kind = "dist" /\ log[r][j].ok) =>
           \A m \in 1..(log[r][j].result[2] - 1) :
             OriginOf(catalog["dist"][m]) # log[r][j].arg

\* C11: a run never changes or deletes a resource the catalog already
\* holds, the catalog only grows; a policy found by name is reused as it
\* is, also with TTLs other than the configured ones; and where a
\* distribution for a domain exists already, no create_distribution call is
\* issued for that domain and the distribution keeps its policy references
\* and its alias, also when policies of the domain were created earlier in
\* the run.
C11_ExistingUntouched ==
  /\ [][C11_Grows]_vars
  /\ []C11_Reused

\* The successful calls of method op for kind k in the one run's log.
Succeeded(op, k) ==
  {j \in 1..Len(log[1]) : log[1][j].op = op /\ log[1][j].kind = k /\ log[1][j].ok}

\* C12: a distribution a run creates for domain D references, for each
\* policy kind, the Id of the one listed policy named sanitize(D + suffix).
\* So domains whose derived names sanitize to one string share one policy
\* of each kind: the run creates it once, for the first of them, and the
\* distributions of the later ones reference the same Ids.
C12_DistributionReferences ==
  \A k \in PolicyKinds :
    /\ \A j \in Succeeded("create", "dist") :
         LET hits == Named(catalog[k], Sanitized(PolicyName(k, log[1][j].arg)))
         IN /\ Cardinality(hits) = 1
            /\ \A i \in hits : catalog[k][i].Id = PolicyIdIn(log[1][j].request, k)
    /\ \A j, h \in Succeeded("create", "dist") :
         Sanitized(PolicyName(k, log[1][j].arg)) = Sanitized(PolicyName(k, log[1][h].arg))
           => PolicyIdIn(log[1][j].request, k) = PolicyIdIn(log[1][h].request, k)
    /\ \A c \in Succeeded("create", k) :
         /\ log[1][c].key = Sanitized(log[1][c].arg)
         /\ \A j \in 1..Len(log[1]) :
              (log[1][j].kind = k /\ Sanitized(log[1][j].arg) = log[1][c].key) =>
                /\ log[1][c].idx <= log[1][j].idx
                /\ (log[1][j].op = "create" /\ log[1][j].ok) => j = c

\* A completed run created the distributions of a.x and of "A x", two
\* domains of one sanitized name, and created the cache policy once.
C12_Witness ==
  /\ pc[1] = Done
  /\ \E j, h \in Succeeded("create", "dist") :
       /\ log[1][j].arg = <<"a", ".", "x">>
       /\ log[1][h].arg = <<"A", " ", "x">>
       /\ PolicyIdIn(log[1][j].request, "cp") = PolicyIdIn(log[1][h].request, "cp")
  /\ Cardinality(Succeeded("create", "cp")) < Len(origins[1])

====
